---- MODULE Spec2Model ----
(***************************************************************************)
(* Model of mrfoundation/guid.h: the guid value type, its text codec       *)
(* (details::guid_parser, formatted_guid), its byte codec (Variant-1 and   *)
(* Variant-2) and operator<.                                               *)
(*                                                                         *)
(* Representation.  TLC integers are 32-bit signed, so a uint32_t is kept   *)
(* as a record [hi, lo] of its two 16-bit halves; every operation on it is *)
(* written on the halves and reduces modulo 2^16 per half, i.e. modulo     *)
(* 2^32 on the whole.  uint16_t and uint8_t are plain naturals reduced     *)
(* modulo 2^16 and 2^8 where the code converts.  A buffer of code units is *)
(* a sequence; a C pointer into it is a 0-based offset p, read as          *)
(* str[p + 1].                                                             *)
(***************************************************************************)
EXTENDS Integers, Sequences, FiniteSets, TLC

\* ------------------------------------------------------------------------
\* Fixed-width integer arithmetic
\* ------------------------------------------------------------------------

\* 2^n, 0 <= n <= 16
Pow2(n) ==
    << 1, 2, 4, 8, 16, 32, 64, 128, 256, 512, 1024, 2048, 4096, 8192,
       16384, 32768, 65536 >>[n + 1]

\* bit p (a power of two) of x
BitAt(x, p) == (x \div p) % 2

\* a | b and a & b on half-bytes
Or4(a, b) ==
    (IF BitAt(a, 1) + BitAt(b, 1) > 0 THEN 1 ELSE 0)
    + (IF BitAt(a, 2) + BitAt(b, 2) > 0 THEN 2 ELSE 0)
    + (IF BitAt(a, 4) + BitAt(b, 4) > 0 THEN 4 ELSE 0)
    + (IF BitAt(a, 8) + BitAt(b, 8) > 0 THEN 8 ELSE 0)

And4(a, b) ==
    (IF BitAt(a, 1) + BitAt(b, 1) = 2 THEN 1 ELSE 0)
    + (IF BitAt(a, 2) + BitAt(b, 2) = 2 THEN 2 ELSE 0)
    + (IF BitAt(a, 4) + BitAt(b, 4) = 2 THEN 4 ELSE 0)
    + (IF BitAt(a, 8) + BitAt(b, 8) = 2 THEN 8 ELSE 0)

RECURSIVE BitOr(_, _)
\* a | b on non-negative ints, a half-byte at a time
BitOr(a, b) ==
    IF a = 0 THEN b
    ELSE IF b = 0 THEN a
    ELSE Or4(a % 16, b % 16) + 16 * BitOr(a \div 16, b \div 16)

RECURSIVE BitAnd(_, _)
\* a & b on non-negative ints, a half-byte at a time
BitAnd(a, b) ==
    IF a = 0 \/ b = 0 THEN 0
    ELSE And4(a % 16, b % 16) + 16 * BitAnd(a \div 16, b \div 16)

\* a ^ b on bytes
Xor4(a, b) ==
    (IF BitAt(a, 1) # BitAt(b, 1) THEN 1 ELSE 0)
    + (IF BitAt(a, 2) # BitAt(b, 2) THEN 2 ELSE 0)
    + (IF BitAt(a, 4) # BitAt(b, 4) THEN 4 ELSE 0)
    + (IF BitAt(a, 8) # BitAt(b, 8) THEN 8 ELSE 0)

BitXor8(a, b) == Xor4(a % 16, b % 16) + 16 * Xor4(a \div 16, b \div 16)

\* conversion of a non-negative int to uint8_t / uint16_t
ToUInt8(x) == x % 256
ToUInt16(x) == x % 65536

\* a uint32_t from its halves; conversion of a (small, non-negative) int
U32(h, l) == [hi |-> h, lo |-> l]
ToUInt32(x) == U32(0, x)

\* x >> n on uint32_t, 0 <= n < 32
Shr32(x, n) ==
    IF n >= 16
    THEN U32(0, x.hi \div Pow2(n - 16))
    ELSE U32(x.hi \div Pow2(n), (x.hi % Pow2(n)) * Pow2(16 - n) + x.lo \div Pow2(n))

\* x << n on a 32-bit pattern, 0 <= n < 32 (bits shifted out are lost)
Shl32(x, n) ==
    IF n >= 16
    THEN U32((x.lo * Pow2(n - 16)) % 65536, 0)
    ELSE U32((((x.hi * Pow2(n)) % 65536) + (x.lo \div Pow2(16 - n))) % 65536,
             (x.lo * Pow2(n)) % 65536)

Or32(x, y) == U32(BitOr(x.hi, y.hi), BitOr(x.lo, y.lo))
And32(x, y) == U32(BitAnd(x.hi, y.hi), BitAnd(x.lo, y.lo))

\* x + y and b * x modulo 2^32 (b a promoted uint8_t, 0..255)
Add32(x, y) ==
    LET l == x.lo + y.lo
    IN U32((x.hi + y.hi + l \div 65536) % 65536, l % 65536)

Mul32(b, x) ==
    LET l == b * x.lo
    IN U32((b * x.hi + l \div 65536) % 65536, l % 65536)

\* x < y and x = y on uint32_t
Lt32(x, y) == x.hi < y.hi \/ (x.hi = y.hi /\ x.lo < y.lo)

\* ------------------------------------------------------------------------
\* Code units
\* ------------------------------------------------------------------------

\* the character literals the code uses
ChNul == 0
ChMinus == 45
Ch0 == 48
Ch9 == 57
ChUpperA == 65
ChUpperF == 70
ChLowerA == 97
ChLowerF == 102
ChOpen == 123
ChClose == 125

\* the element types T the templates are instantiated with
ElemTypes == {"char", "wchar_t"}

\* conversion of an int to T: char is a signed 8-bit unit, wchar_t a 16-bit one
ToElem(T, x) ==
    IF T = "char"
    THEN ((x + 128) % 256) - 128
    ELSE x % 65536

\* ------------------------------------------------------------------------
\* struct guid
\* ------------------------------------------------------------------------

MkGuid(d1, d2, d3, d4) == [Data1 |-> d1, Data2 |-> d2, Data3 |-> d3, Data4 |-> d4]

guid_null == MkGuid(U32(0, 0), 0, 0, <<0, 0, 0, 0, 0, 0, 0, 0>>)

\* ------------------------------------------------------------------------
\* details::guid_parser<T>
\*
\* The cursor (const T** str) and the exception in flight are threaded
\* through the calls as a record s:
\*   cur         the cursor, as an offset into the buffer
\*   thrown      a parse_error has been thrown and is propagating
\*   message, parsePoint   the fields of that parse_error
\*   ret         the value returned by the last call
\*   reads       the offsets read so far, in order
\* A call made while an exception propagates does not happen.
\* ------------------------------------------------------------------------

ParserStart ==
    [cur |-> 0, thrown |-> FALSE, message |-> "", parsePoint |-> 0,
     ret |-> 0, reads |-> <<>>]

\* throw parse_error{msg, pt}
ThrowParseError(s, msg, pt) ==
    [s EXCEPT !.thrown = TRUE, !.message = msg, !.parsePoint = pt]

\* return v, unless an exception propagates
Return(s, v) == IF s.thrown THEN s ELSE [s EXCEPT !.ret = v]

\* the read of the unit under the cursor
ReadAtCursor(s) == [s EXCEPT !.reads = Append(@, s.cur)]

\* TryParseChar that reports a match without advancing the cursor
TryParseChar_NoAdvance(T, buf, s, c) ==
    IF s.thrown THEN s
    ELSE IF buf[s.cur + 1] = ToElem(T, c)
    THEN [ReadAtCursor(s) EXCEPT !.ret = 1]
    ELSE [ReadAtCursor(s) EXCEPT !.ret = 0]

TryParseChar(T, buf, s, c) ==
    IF s.thrown THEN s
    ELSE IF buf[s.cur + 1] = ToElem(T, c)
    THEN [ReadAtCursor(s) EXCEPT !.cur = @ + 1, !.ret = 1]
    ELSE [ReadAtCursor(s) EXCEPT !.ret = 0]

\* the throw of ParseChar when TryParseChar returned false
ThrowIfNoMatch(t) ==
    IF t.thrown \/ t.ret = 1 THEN t
    ELSE ThrowParseError(t, "Improperly formatted guid!", t.cur)

\* (variant) a mismatch is not thrown
ParseChar_NoThrow(T, buf, s, c) ==
    IF s.thrown THEN s ELSE TryParseChar(T, buf, s, c)

ParseChar(T, buf, s, c) ==
    IF s.thrown THEN s ELSE ThrowIfNoMatch(TryParseChar(T, buf, s, c))

\* The conditional expression of ParseHalfByte, for the unit c read and the
\* state t after the read and the increment: the value returned, or the throw
\* with parsePoint *str - 1.
\* (variant) the upper-case letters without their + 10
HalfByteOf_UpperNoTen(c, t) ==
    IF c >= Ch0 /\ c <= Ch9
    THEN Return(t, ToUInt8(c - Ch0))
    ELSE IF c >= ChLowerA /\ c <= ChLowerF
    THEN Return(t, ToUInt8(c - ChLowerA + 10))
    ELSE IF c >= ChUpperA /\ c <= ChUpperF
    THEN Return(t, ToUInt8(c - ChUpperA))
    ELSE ThrowParseError(t, "Invalid hexadecimal character!", t.cur - 1)

\* (variant) the parse_error points at the cursor after the increment
HalfByteOf_PointAfter(c, t) ==
    IF c >= Ch0 /\ c <= Ch9
    THEN Return(t, ToUInt8(c - Ch0))
    ELSE IF c >= ChLowerA /\ c <= ChLowerF
    THEN Return(t, ToUInt8(c - ChLowerA + 10))
    ELSE IF c >= ChUpperA /\ c <= ChUpperF
    THEN Return(t, ToUInt8(c - ChUpperA + 10))
    ELSE ThrowParseError(t, "Invalid hexadecimal character!", t.cur)

HalfByteOf(c, t) ==
    IF c >= Ch0 /\ c <= Ch9
    THEN Return(t, ToUInt8(c - Ch0))
    ELSE IF c >= ChLowerA /\ c <= ChLowerF
    THEN Return(t, ToUInt8(c - ChLowerA + 10))
    ELSE IF c >= ChUpperA /\ c <= ChUpperF
    THEN Return(t, ToUInt8(c - ChUpperA + 10))
    ELSE ThrowParseError(t, "Invalid hexadecimal character!", t.cur - 1)

\* const T c = *(*str)++; return ...
ParseHalfByte(T, buf, s) ==
    IF s.thrown THEN s
    ELSE HalfByteOf(buf[s.cur + 1], [ReadAtCursor(s) EXCEPT !.cur = @ + 1])

\* (variant) the low half-byte first
MakeByte_LowFirst(first, second) ==
    Return(second, ToUInt8(BitOr(second.ret * 16, first.ret)))

\* return (first << 4) | second;
MakeByte(first, second) ==
    Return(second, ToUInt8(BitOr(first.ret * 16, second.ret)))

\* const uint8_t second = ParseHalfByte(str); and the return
ParseByteSecond(T, buf, first) ==
    IF first.thrown THEN first ELSE MakeByte(first, ParseHalfByte(T, buf, first))

ParseByte(T, buf, s) ==
    IF s.thrown THEN s ELSE ParseByteSecond(T, buf, ParseHalfByte(T, buf, s))

\* return (upper << 8) | lower;
MakeUInt16(upper, lower) ==
    Return(lower, ToUInt16(BitOr(upper.ret * 256, lower.ret)))

\* const uint8_t lower = ParseByte(str); and the return
ParseUInt16Lower(T, buf, upper) ==
    IF upper.thrown THEN upper ELSE MakeUInt16(upper, ParseByte(T, buf, upper))

ParseUInt16(T, buf, s) ==
    IF s.thrown THEN s ELSE ParseUInt16Lower(T, buf, ParseByte(T, buf, s))

\* return (high << 16) | low; the int pattern converted to uint32_t
MakeUInt32(high, low) ==
    Return(low, Or32(Shl32(ToUInt32(high.ret), 16), ToUInt32(low.ret)))

\* const uint16_t low = ParseUInt16(str); and the return
ParseUInt32Low(T, buf, high) ==
    IF high.thrown THEN high ELSE MakeUInt32(high, ParseUInt16(T, buf, high))

ParseUInt32(T, buf, s) ==
    IF s.thrown THEN s ELSE ParseUInt32Low(T, buf, ParseUInt16(T, buf, s))

\* what parse hands to its caller: the guid built from the initializers
\* `parsed`, or the parse_error that e carries
ParseOutcome(e, parsed) ==
    IF e.thrown
    THEN [thrown |-> TRUE, message |-> e.message, parsePoint |-> e.parsePoint,
          reads |-> e.reads]
    ELSE [thrown |-> FALSE,
          guid |-> MkGuid(parsed[1].ret, parsed[2].ret, parsed[3].ret,
                          [j \in 1..8 |-> parsed[3 + j].ret]),
          reads |-> e.reads]

\* guid_parser<T>::parse; `parsed` is the braced initializer list, whose
\* elements are evaluated left to right
parse(T, buf) ==
    LET b == TryParseChar(T, buf, ParserStart, ChOpen)
        hasBraces == b.ret = 1
        d1 == ParseUInt32(T, buf, b)
        d2 == ParseUInt16(T, buf, ParseChar(T, buf, d1, ChMinus))
        d3 == ParseUInt16(T, buf, ParseChar(T, buf, d2, ChMinus))
        b0 == ParseByte(T, buf, ParseChar(T, buf, d3, ChMinus))
        b1 == ParseByte(T, buf, b0)
        b2 == ParseByte(T, buf, ParseChar(T, buf, b1, ChMinus))
        b3 == ParseByte(T, buf, b2)
        b4 == ParseByte(T, buf, b3)
        b5 == ParseByte(T, buf, b4)
        b6 == ParseByte(T, buf, b5)
        b7 == ParseByte(T, buf, b6)
        parsed == <<d1, d2, d3, b0, b1, b2, b3, b4, b5, b6, b7>>
    IN ParseOutcome(ParseChar(T, buf,
                              IF hasBraces THEN ParseChar(T, buf, parsed[11], ChClose)
                                           ELSE parsed[11],
                              ChNul),
                    parsed)

\* parse_guid<T>
parse_guid(T, buf) == parse(T, buf)

\* ------------------------------------------------------------------------
\* formatted_guid<T>
\*
\* A character-returning helper yields either a code unit or FormatError (a
\* number that is no code unit), standing for a format_error thrown out of
\* the constructor.
\* ------------------------------------------------------------------------

FormatError == -65536

\* HalfByteToChar with the digit/letter boundary off by one
HalfByteToChar_Boundary(T, hb) ==
    IF hb >= 16
    THEN FormatError
    ELSE ToElem(T, hb + (IF hb <= 10 THEN Ch0 ELSE ChLowerA - 10))

HalfByteToChar(T, hb) ==
    IF hb >= 16
    THEN FormatError
    ELSE ToElem(T, hb + (IF hb < 10 THEN Ch0 ELSE ChLowerA - 10))

High(ui32) == ToUInt16(Shr32(ui32, 16).lo)
Low(ui32) == ToUInt16(And32(ui32, U32(0, 65535)).lo)
Upper(ui16) == ToUInt8(ui16 \div 256)
Lower(ui16) == ToUInt8(BitAnd(ui16, 255))
\* First that takes the low half-byte
First_LowHalf(T, ui8) == HalfByteToChar(T, BitAnd(ui8, 15))

First(T, ui8) == HalfByteToChar(T, ui8 \div 16)
Second(T, ui8) == HalfByteToChar(T, BitAnd(ui8, 15))

\* the constructor formatted_guid<T>(g): the member `value`, or the
\* format_error thrown
formatted_guid(T, g) ==
    LET v == << ToElem(T, ChOpen),
                First(T, Upper(High(g.Data1))),
                Second(T, Upper(High(g.Data1))),
                First(T, Lower(High(g.Data1))),
                Second(T, Lower(High(g.Data1))),
                First(T, Upper(Low(g.Data1))),
                Second(T, Upper(Low(g.Data1))),
                First(T, Lower(Low(g.Data1))),
                Second(T, Lower(Low(g.Data1))),
                ToElem(T, ChMinus),
                First(T, Upper(g.Data2)),
                Second(T, Upper(g.Data2)),
                First(T, Lower(g.Data2)),
                Second(T, Lower(g.Data2)),
                ToElem(T, ChMinus),
                First(T, Upper(g.Data3)),
                Second(T, Upper(g.Data3)),
                First(T, Lower(g.Data3)),
                Second(T, Lower(g.Data3)),
                ToElem(T, ChMinus),
                First(T, g.Data4[1]),
                Second(T, g.Data4[1]),
                First(T, g.Data4[2]),
                Second(T, g.Data4[2]),
                ToElem(T, ChMinus),
                First(T, g.Data4[3]),
                Second(T, g.Data4[3]),
                First(T, g.Data4[4]),
                Second(T, g.Data4[4]),
                First(T, g.Data4[5]),
                Second(T, g.Data4[5]),
                First(T, g.Data4[6]),
                Second(T, g.Data4[6]),
                First(T, g.Data4[7]),
                Second(T, g.Data4[7]),
                First(T, g.Data4[8]),
                Second(T, g.Data4[8]),
                ToElem(T, ChClose),
                ToElem(T, ChNul) >>
    IN IF \E i \in 1..Len(v) : v[i] = FormatError
       THEN [thrown |-> TRUE, message |-> "Half-byte out of range!"]
       ELSE [thrown |-> FALSE, value |-> v]

\* ------------------------------------------------------------------------
\* Byte codec: uint8_t (&u)[16] is a sequence of 16 bytes, u[i] is u[i + 1]
\* ------------------------------------------------------------------------

\* as encode_guid_as_variant1, but u[1] takes Data1 >> 8
encode_guid_as_variant1_SameShift(g) ==
    << ToUInt8(Shr32(g.Data1, 24).lo),
       ToUInt8(Shr32(g.Data1, 8).lo),
       ToUInt8(Shr32(g.Data1, 8).lo),
       ToUInt8(g.Data1.lo),
       ToUInt8(g.Data2 \div 256),
       ToUInt8(g.Data2),
       ToUInt8(g.Data3 \div 256),
       ToUInt8(g.Data3),
       g.Data4[1], g.Data4[2], g.Data4[3], g.Data4[4],
       g.Data4[5], g.Data4[6], g.Data4[7], g.Data4[8] >>

encode_guid_as_variant1(g) ==
    << ToUInt8(Shr32(g.Data1, 24).lo),
       ToUInt8(Shr32(g.Data1, 16).lo),
       ToUInt8(Shr32(g.Data1, 8).lo),
       ToUInt8(g.Data1.lo),
       ToUInt8(g.Data2 \div 256),
       ToUInt8(g.Data2),
       ToUInt8(g.Data3 \div 256),
       ToUInt8(g.Data3),
       g.Data4[1], g.Data4[2], g.Data4[3], g.Data4[4],
       g.Data4[5], g.Data4[6], g.Data4[7], g.Data4[8] >>

\* as decode_guid_from_variant1, but Data1 is summed in 16 bits
decode_guid_from_variant1_Narrow(u) ==
    MkGuid(ToUInt32(ToUInt16(Add32(Add32(Add32(Mul32(u[1], U32(256, 0)), Mul32(u[2], U32(1, 0))),
                                         Mul32(u[3], U32(0, 256))),
                                   ToUInt32(u[4])).lo)),
           ToUInt16(u[5] * 256 + u[6]),
           ToUInt16(u[7] * 256 + u[8]),
           << u[9], u[10], u[11], u[12], u[13], u[14], u[15], u[16] >>)

decode_guid_from_variant1(u) ==
    MkGuid(Add32(Add32(Add32(Mul32(u[1], U32(256, 0)), Mul32(u[2], U32(1, 0))),
                       Mul32(u[3], U32(0, 256))),
                 ToUInt32(u[4])),
           ToUInt16(u[5] * 256 + u[6]),
           ToUInt16(u[7] * 256 + u[8]),
           << u[9], u[10], u[11], u[12], u[13], u[14], u[15], u[16] >>)

\* as encode_guid_as_variant2, but Data3 is written high byte first
encode_guid_as_variant2_BigData3(g) ==
    << ToUInt8(g.Data1.lo),
       ToUInt8(Shr32(g.Data1, 8).lo),
       ToUInt8(Shr32(g.Data1, 16).lo),
       ToUInt8(Shr32(g.Data1, 24).lo),
       ToUInt8(g.Data2),
       ToUInt8(g.Data2 \div 256),
       ToUInt8(g.Data3 \div 256),
       ToUInt8(g.Data3),
       g.Data4[1], g.Data4[2], g.Data4[3], g.Data4[4],
       g.Data4[5], g.Data4[6], g.Data4[7], g.Data4[8] >>

encode_guid_as_variant2(g) ==
    << ToUInt8(g.Data1.lo),
       ToUInt8(Shr32(g.Data1, 8).lo),
       ToUInt8(Shr32(g.Data1, 16).lo),
       ToUInt8(Shr32(g.Data1, 24).lo),
       ToUInt8(g.Data2),
       ToUInt8(g.Data2 \div 256),
       ToUInt8(g.Data3),
       ToUInt8(g.Data3 \div 256),
       g.Data4[1], g.Data4[2], g.Data4[3], g.Data4[4],
       g.Data4[5], g.Data4[6], g.Data4[7], g.Data4[8] >>

decode_guid_from_variant2(u) ==
    MkGuid(Add32(Add32(Add32(ToUInt32(u[1]), Mul32(u[2], U32(0, 256))),
                       Mul32(u[3], U32(1, 0))),
                 Mul32(u[4], U32(256, 0))),
           ToUInt16(u[5] + u[6] * 256),
           ToUInt16(u[7] + u[8] * 256),
           << u[9], u[10], u[11], u[12], u[13], u[14], u[15], u[16] >>)

\* ------------------------------------------------------------------------
\* operator< and the object representation of a guid
\* ------------------------------------------------------------------------

\* the byte orders of the hosts the header is built for
Hosts == {"little", "big"}

\* the 16 bytes of a guid object in memory (offsets 0, 4, 6, 8)
ObjectRep(g, host) ==
    LET b1 == << g.Data1.hi \div 256, g.Data1.hi % 256,
                 g.Data1.lo \div 256, g.Data1.lo % 256 >>
        b2 == << g.Data2 \div 256, g.Data2 % 256 >>
        b3 == << g.Data3 \div 256, g.Data3 % 256 >>
        Rev(q) == [i \in 1..Len(q) |-> q[Len(q) + 1 - i]]
    IN IF host = "big"
       THEN b1 \o b2 \o b3 \o g.Data4
       ELSE Rev(b1) \o Rev(b2) \o Rev(b3) \o g.Data4

\* the integer a host reads from n bytes of memory at offset off
LoadUInt16(m, off, host) ==
    IF host = "big" THEN m[off + 1] * 256 + m[off + 2]
                    ELSE m[off + 2] * 256 + m[off + 1]

LoadUInt32(m, off, host) ==
    IF host = "big" THEN U32(LoadUInt16(m, off, host), LoadUInt16(m, off + 2, host))
                    ELSE U32(LoadUInt16(m, off + 2, host), LoadUInt16(m, off, host))

RECURSIVE memcmp(_, _, _)
\* memcmp(a, b, n): the sign of the first differing pair of bytes, each
\* compared as unsigned char
memcmp(a, b, n) ==
    IF n = 0 THEN 0
    ELSE IF a[1] < b[1] THEN -1
    ELSE IF a[1] > b[1] THEN 1
    ELSE memcmp(Tail(a), Tail(b), n - 1)

\* as operator<, but the two objects are compared byte by byte
operator_less_memcmp(left, right, host) ==
    memcmp(ObjectRep(left, host), ObjectRep(right, host), 16) < 0

\* as operator<, but with <= 0 for the memcmp of Data4
operator_less_Data4LessEqual(left, right, host) ==
    LET l == ObjectRep(left, host)
        r == ObjectRep(right, host)
        lData1 == LoadUInt32(l, 0, host)
        rData1 == LoadUInt32(r, 0, host)
        lData2 == LoadUInt16(l, 4, host)
        rData2 == LoadUInt16(r, 4, host)
        lData3 == LoadUInt16(l, 6, host)
        rData3 == LoadUInt16(r, 6, host)
    IN IF Lt32(lData1, rData1) THEN TRUE
       ELSE IF lData1 = rData1
       THEN IF lData2 < rData2 THEN TRUE
            ELSE IF lData2 = rData2
            THEN IF lData3 < rData3 THEN TRUE
                 ELSE IF lData3 = rData3
                 THEN memcmp(SubSeq(l, 9, 16), SubSeq(r, 9, 16), 8) <= 0
                 ELSE FALSE
            ELSE FALSE
       ELSE FALSE

\* operator<(left, right) on the two objects in the memory of a host
operator_less(left, right, host) ==
    LET l == ObjectRep(left, host)
        r == ObjectRep(right, host)
        lData1 == LoadUInt32(l, 0, host)
        rData1 == LoadUInt32(r, 0, host)
        lData2 == LoadUInt16(l, 4, host)
        rData2 == LoadUInt16(r, 4, host)
        lData3 == LoadUInt16(l, 6, host)
        rData3 == LoadUInt16(r, 6, host)
    IN IF Lt32(lData1, rData1) THEN TRUE
       ELSE IF lData1 = rData1
       THEN IF lData2 < rData2 THEN TRUE
            ELSE IF lData2 = rData2
            THEN IF lData3 < rData3 THEN TRUE
                 ELSE IF lData3 = rData3
                 THEN memcmp(SubSeq(l, 9, 16), SubSeq(r, 9, 16), 8) < 0
                 ELSE FALSE
            ELSE FALSE
       ELSE FALSE

\* ------------------------------------------------------------------------
\* operator== and std::hash<mrf::guid>
\*
\* A size_t of sizeof_size_t bytes is the sequence of its bytes, least
\* significant first.
\* ------------------------------------------------------------------------

\* the sizes of size_t guid_hash_traits_impl is specialised for
SizeofSizeT == {4, 8}

operator_eq(left, right, host) ==
    memcmp(ObjectRep(left, host), ObjectRep(right, host), 16) = 0

\* 14695981039346656037ULL = 0xcbf29ce484222325, 2166136261U = 0x811c9dc5
fnv_offset_basis(size) ==
    IF size = 8 THEN << 37, 35, 34, 132, 228, 156, 242, 203 >>
                ELSE << 197, 157, 28, 129 >>

\* 1099511628211ULL = 0x00000100000001b3, 16777619U = 0x01000193
fnv_prime(size) ==
    IF size = 8 THEN << 179, 1, 0, 0, 0, 1, 0, 0 >>
                ELSE << 147, 1, 0, 1 >>

\* result ^= buffer[next]: the byte is promoted to size_t
XorSizeT(x, b) == [x EXCEPT ![1] = BitXor8(@, b)]

\* digit k (1-based) of x * y before the carry: the products x[i] * y[j]
\* with i + j = k + 1
RECURSIVE MulColumn(_, _, _, _)
MulColumn(x, y, k, i) ==
    IF i > k THEN 0 ELSE x[i] * y[k + 1 - i] + MulColumn(x, y, k, i + 1)

\* x * y modulo 2^(8 * Len(x)), from digit k on with the carry into it
RECURSIVE MulFrom(_, _, _, _)
MulFrom(x, y, k, carry) ==
    IF k > Len(x) THEN <<>>
    ELSE << (MulColumn(x, y, k, 1) + carry) % 256 >>
             \o MulFrom(x, y, k + 1, (MulColumn(x, y, k, 1) + carry) \div 256)

MulSizeT(x, y) == MulFrom(x, y, 1, 0)

\* as HashStep, but multiplies before it xors (FNV-1)
HashStep_MultiplyFirst(r, b, size) == XorSizeT(MulSizeT(r, fnv_prime(size)), b)

\* one iteration of the loop
HashStep(r, b, size) == MulSizeT(XorSizeT(r, b), fnv_prime(size))

\* for (size_t next = 0; next < sizeof(value); ++next)
RECURSIVE HashLoop(_, _, _, _)
HashLoop(buffer, next, r, size) ==
    IF Len(r) = size /\ next < 16
    THEN HashLoop(buffer, next + 1, HashStep(r, buffer[next + 1], size), size)
    ELSE r

\* std::hash<mrf::guid>::operator()(value)
hash(value, host, size) ==
    HashLoop(ObjectRep(value, host), 0, fnv_offset_basis(size), size)

\* ------------------------------------------------------------------------
\* mrfoundation/nanocom.h: hresult, the failure codes and the bridge between
\* failure codes and exceptions.  An hresult (int32_t) is an integer in
\* -2^31 .. 2^31 - 1.
\* ------------------------------------------------------------------------

\* conversion of a uint32_t to int32_t (hresult)
ToInt32(x) ==
    IF x.hi >= 32768 THEN (x.hi - 65536) * 65536 + x.lo ELSE x.hi * 65536 + x.lo

\* as failure_from_win32, but 0 is encoded like every other code
failure_from_win32_ZeroAllowed(code) ==
    [thrown |-> FALSE, value |-> ToInt32(Or32(U32(32775, 0), ToUInt32(code)))]

\* details::failure_from_win32(code): 0x80070000 | code, or the exception
failure_from_win32(code) ==
    IF code = 0
    THEN [thrown |-> TRUE, type |-> "details::invalid_win32_error_code"]
    ELSE [thrown |-> FALSE, value |-> ToInt32(Or32(U32(32775, 0), ToUInt32(code)))]

success_ok == 0

failure_pending == ToInt32(U32(32768, 10))
failure_not_implemented == ToInt32(U32(32768, 16385))
failure_no_interface == ToInt32(U32(32768, 16386))
failure_abort == ToInt32(U32(32768, 16388))
failure_unspecified == ToInt32(U32(32768, 16389))
failure_unexpected == ToInt32(U32(32768, 65535))
failure_access_denied == failure_from_win32(5).value
failure_invalid_handle == failure_from_win32(6).value
failure_invalid_data == failure_from_win32(13).value
failure_out_of_memory == failure_from_win32(14).value
failure_not_ready == failure_from_win32(21).value
failure_bad_command == failure_from_win32(22).value
failure_not_supported == failure_from_win32(50).value
failure_invalid_argument == failure_from_win32(87).value
failure_insufficient_buffer == failure_from_win32(122).value
failure_more_data == failure_from_win32(234).value
failure_no_more_items == failure_from_win32(259).value
failure_operation_aborted == failure_from_win32(995).value
failure_io_pending == failure_from_win32(997).value
failure_not_found == failure_from_win32(1168).value
failure_cancelled == failure_from_win32(1223).value
failure_driver_process_terminated == failure_from_win32(1291).value
failure_device_removed == failure_from_win32(1617).value
failure_not_connected == failure_from_win32(2250).value

\* as is_success, but 0 is not a success
is_success_Positive(r) == r > 0

is_success(r) == r >= 0

is_failure(r) == ~is_success(r)

\* as hresult_failure, but the constructor does not look at the code
hresult_failure_Unchecked(r) == [code |-> r, aborted |-> FALSE]

\* hresult_failure{result}: the object, and whether the constructor aborted
hresult_failure(r) == [code |-> r, aborted |-> ~is_failure(r)]

\* as throw_if_failure, but the code thrown is failure_unspecified
throw_if_failure_Unspecified(r) ==
    IF is_failure(r)
    THEN [thrown |-> TRUE, aborted |-> hresult_failure(failure_unspecified).aborted,
          exception |-> [type |-> "hresult_failure",
                         code |-> hresult_failure(failure_unspecified).code]]
    ELSE [thrown |-> FALSE, aborted |-> FALSE]

\* throw_if_failure(result): returns, or throws the hresult_failure built
throw_if_failure(r) ==
    IF is_failure(r)
    THEN [thrown |-> TRUE, aborted |-> hresult_failure(r).aborted,
          exception |-> [type |-> "hresult_failure", code |-> hresult_failure(r).code]]
    ELSE [thrown |-> FALSE, aborted |-> FALSE]

\* details::unexpected_failure_fallback()
unexpected_failure_fallback == failure_unexpected

\* the class a standard exception class derives from
BaseClass(type) ==
    CASE type = "std::bad_array_new_length" -> "std::bad_alloc"
      [] type = "std::bad_any_cast" -> "std::bad_cast"
      [] type \in {"std::invalid_argument", "std::out_of_range", "std::length_error"}
            -> "std::logic_error"
      [] type \in {"std::bad_alloc", "std::bad_cast", "std::bad_function_call",
                   "std::bad_exception", "std::logic_error", "std::runtime_error"}
            -> "std::exception"
      [] OTHER -> "none"

\* a handler catch (const handler&) takes an exception of class type
RECURSIVE Catches(_, _)
Catches(handler, type) ==
    IF type = "none" THEN FALSE
    ELSE type = handler \/ Catches(handler, BaseClass(type))

\* fallback(): what a caller's fallback does
CallFallback(fallback) ==
    IF fallback.kind = "default"
    THEN [thrown |-> FALSE, value |-> unexpected_failure_fallback]
    ELSE IF fallback.kind = "returns"
    THEN [thrown |-> FALSE, value |-> fallback.value]
    ELSE [thrown |-> TRUE]

\* a handler returned value without calling the fallback
Caught(value) == [terminated |-> FALSE, value |-> value, fallback_called |-> FALSE]

\* catch (...) { return fallback(); } in a noexcept function
CatchAll(fallback) ==
    IF CallFallback(fallback).thrown
    THEN [terminated |-> TRUE, fallback_called |-> TRUE]
    ELSE [terminated |-> FALSE, value |-> CallFallback(fallback).value,
          fallback_called |-> TRUE]

\* as StlHandlers, but out_of_range is reported as invalid argument
StlHandlers_OutOfRange(e, fallback) ==
    IF Catches("std::bad_alloc", e.type) THEN Caught(failure_out_of_memory)
    ELSE IF Catches("std::invalid_argument", e.type) THEN Caught(failure_invalid_argument)
    ELSE IF Catches("std::out_of_range", e.type) THEN Caught(failure_invalid_argument)
    ELSE IF Catches("std::bad_function_call", e.type) THEN Caught(failure_not_implemented)
    ELSE IF Catches("std::bad_cast", e.type) THEN Caught(failure_no_interface)
    ELSE IF Catches("std::bad_exception", e.type) THEN Caught(failure_unexpected)
    ELSE CatchAll(fallback)

\* the handlers compiled unless MRFOUNDATION_NO_STL is defined, then catch (...)
StlHandlers(e, fallback) ==
    IF Catches("std::bad_alloc", e.type) THEN Caught(failure_out_of_memory)
    ELSE IF Catches("std::invalid_argument", e.type) THEN Caught(failure_invalid_argument)
    ELSE IF Catches("std::out_of_range", e.type) THEN Caught(failure_not_found)
    ELSE IF Catches("std::bad_function_call", e.type) THEN Caught(failure_not_implemented)
    ELSE IF Catches("std::bad_cast", e.type) THEN Caught(failure_no_interface)
    ELSE IF Catches("std::bad_exception", e.type) THEN Caught(failure_unexpected)
    ELSE CatchAll(fallback)

\* as current_exception_to_hresult, but an hresult_failure goes to catch (...)
current_exception_to_hresult_NoBridge(e, fallback, no_stl) ==
    IF e.type = "none" THEN [terminated |-> TRUE, fallback_called |-> FALSE]
    ELSE IF no_stl THEN CatchAll(fallback)
    ELSE StlHandlers(e, fallback)

\* current_exception_to_hresult(fallback) with e in flight ("none": the
\* rethrow finds no exception and calls std::terminate)
current_exception_to_hresult(e, fallback, no_stl) ==
    IF e.type = "none" THEN [terminated |-> TRUE, fallback_called |-> FALSE]
    ELSE IF Catches("hresult_failure", e.type) THEN Caught(e.code)
    ELSE IF no_stl THEN CatchAll(fallback)
    ELSE StlHandlers(e, fallback)

\* ------------------------------------------------------------------------
\* nanocom_alloc / nanocom_free.  The shared-library heap behind the facade
\* is a record: capacity bytes in all, blocks[a] the size of the live block
\* at address a (NoBlock where none is), zero_null whether a request of zero
\* bytes is answered with a null pointer.  A live block takes its size, at
\* least one byte, from the capacity.
\* ------------------------------------------------------------------------

Null == 0

NoBlock == -1

BlockCost(numBytes) == IF numBytes = 0 THEN 1 ELSE numBytes

RECURSIVE HeapUsedFrom(_, _)
HeapUsedFrom(heap, a) ==
    IF a > heap.capacity THEN 0
    ELSE (IF heap.blocks[a] = NoBlock THEN 0 ELSE BlockCost(heap.blocks[a]))
         + HeapUsedFrom(heap, a + 1)

HeapUsed(heap) == HeapUsedFrom(heap, 1)

FreeAddress(heap) ==
    CHOOSE a \in 1..heap.capacity :
        /\ heap.blocks[a] = NoBlock
        /\ \A b \in 1..(a - 1) : heap.blocks[b] # NoBlock

\* what the heap answers to a request: the pointer, and the heap after it
HeapAllocate(heap, numBytes) ==
    IF numBytes = 0 /\ heap.zero_null THEN [p |-> Null, heap |-> heap]
    ELSE IF HeapUsed(heap) + BlockCost(numBytes) > heap.capacity
    THEN [p |-> Null, heap |-> heap]
    ELSE [p |-> FreeAddress(heap),
          heap |-> [heap EXCEPT !.blocks[FreeAddress(heap)] = numBytes]]

HeapRelease(heap, p) ==
    IF p = Null THEN heap ELSE [heap EXCEPT !.blocks[p] = NoBlock]

CoTaskMemAlloc(heap, numBytes) == HeapAllocate(heap, numBytes)

malloc(heap, numBytes) == HeapAllocate(heap, numBytes)

\* as nanocom_alloc, but a null pointer from the heap ends the process
nanocom_alloc_AbortOnNull(numBytes, heap) ==
    IF HeapAllocate(heap, numBytes).p = Null
    THEN [proc |-> "abort", p |-> Null, heap |-> heap]
    ELSE [proc |-> "running"] @@ HeapAllocate(heap, numBytes)

nanocom_alloc(numBytes, heap) ==
    [proc |-> "running"]
    @@ (IF heap.platform = "win32" THEN CoTaskMemAlloc(heap, numBytes)
        ELSE malloc(heap, numBytes))

nanocom_free(p, heap) ==
    [proc |-> "running", heap |-> HeapRelease(heap, p)]

\* ------------------------------------------------------------------------
\* create_guid.  The platform is a record e: on Windows what CoCreateGuid
\* returns and stores; elsewhere what open, read and close return and the 37
\* bytes read stores in guidString.
\* ------------------------------------------------------------------------

ChNewline == 10

\* sizeof(guidString)
GuidStringSize == 37

\* the function returned value / called abort() / let an exception reach
\* its noexcept boundary (std::terminate)
Returned(value) == [proc |-> "running", value |-> value]
Aborted == [proc |-> "abort"]
Terminated == [proc |-> "terminate"]

\* return parse_guid(guidString); in a noexcept function
ReturnParsed(parsed) == IF parsed.thrown THEN Terminated ELSE Returned(parsed.guid)

\* as create_guid_posix, but the byte after the text is not looked at
create_guid_posix_AnyLastByte(e) ==
    IF e.fd < 0 THEN Aborted
    ELSE IF e.read # GuidStringSize THEN Aborted
    ELSE IF e.close # 0 THEN Aborted
    ELSE ReturnParsed(parse_guid("char", [e.guidString EXCEPT ![GuidStringSize] = ChNul]))

\* the #else branch of create_guid
create_guid_posix(e) ==
    IF e.fd < 0 THEN Aborted
    ELSE IF e.read # GuidStringSize THEN Aborted
    ELSE IF e.guidString[GuidStringSize] # ChNewline THEN Aborted
    ELSE IF e.close # 0 THEN Aborted
    ELSE ReturnParsed(parse_guid("char", [e.guidString EXCEPT ![GuidStringSize] = ChNul]))

\* the #ifdef _WIN32 branch of create_guid; FAILED(hr) is hr < 0
create_guid_win32(e) ==
    IF e.hr < 0 THEN Aborted ELSE Returned(e.result)

create_guid(e) ==
    IF e.platform = "win32" THEN create_guid_win32(e) ELSE create_guid_posix(e)

\* ------------------------------------------------------------------------
\* Inputs
\*
\* A guid is drawn as a sequence of 32 half-bytes, most significant first:
\* sample (k, s) has the half-byte (k + s * i) % 16 at index i, so that with
\* s = 0 every index takes every value and with s > 0 neighbours differ.
\* ------------------------------------------------------------------------

\* the largest stride s of a sample
MaxStride == 1
\* the case patterns 0..MaxMask a text is spelled in
MaxMask == 3

Nib(k, s) == [i \in 1..32 |-> (k + s * (i - 1)) % 16]

\* the half-bytes of {00112233-4455-6677-8899-aabbccddeeff}
ExampleNib == [i \in 1..32 |-> (i - 1) \div 2]

NibSamples == {Nib(k, s) : k \in 0..15, s \in 0..MaxStride} \cup {ExampleNib}

\* the number written by the hex digits n[from..to], most significant first
RECURSIVE HexValue(_, _, _)
HexValue(n, from, to) ==
    IF to < from THEN 0 ELSE 16 * HexValue(n, from, to - 1) + n[to]

\* the guid whose fields are written by the 32 hex digits n (8, 4, 4 and
\* then 2 per byte)
GuidOfNib(n) ==
    MkGuid(U32(HexValue(n, 1, 4), HexValue(n, 5, 8)),
           HexValue(n, 9, 12),
           HexValue(n, 13, 16),
           [j \in 1..8 |-> HexValue(n, 15 + 2 * j, 16 + 2 * j)])

\* the hex digit for v in upper or lower case
HexDigit(v, upper) ==
    IF v < 10 THEN Ch0 + v
    ELSE IF upper THEN ChUpperA + v - 10 ELSE ChLowerA + v - 10

\* pattern mask writes the digit at index i in upper case when bit i % 2 of
\* mask is set
IsUpper(mask, i) == (mask \div Pow2(i % 2)) % 2 = 1

\* the body hex8-hex4-hex4-hex4-hex12 of the digits n in pattern mask
Body(n, mask) ==
    LET D(from, to) == [i \in 1..(to - from + 1) |->
                            HexDigit(n[from + i - 1], IsUpper(mask, from + i - 1))]
    IN D(1, 8) \o <<ChMinus>> \o D(9, 12) \o <<ChMinus>> \o D(13, 16)
       \o <<ChMinus>> \o D(17, 20) \o <<ChMinus>> \o D(21, 32)

\* the NUL-terminated text of the digits n, with or without braces
Spell(n, braces, mask) ==
    IF braces THEN <<ChOpen>> \o Body(n, mask) \o <<ChClose, ChNul>>
              ELSE Body(n, mask) \o <<ChNul>>

\* the bytes written by the 32 hex digits n, two digits per byte
BytesOfNib(n) == [j \in 1..16 |-> HexValue(n, 2 * j - 1, 2 * j)]

\* Ill-formed texts are made from a well-formed one by replacing, inserting
\* or deleting one code unit before its terminator.

\* the well-formed texts edited are those of the samples (k, 1), k <= MaxBase
MaxBase == 0

\* the units put into a text: the terminator, the punctuation, the ends of
\* the three digit ranges and their neighbours, and units of T outside ASCII
\* (for wchar_t, units that equal a digit modulo 256)
EditUnits(T) ==
    {ChNul, ChMinus, ChOpen, ChClose, Ch0, Ch9, ChLowerA, ChLowerF, ChUpperA, ChUpperF,
     Ch0 - 1, Ch9 + 1, ChUpperA - 1, ChUpperF + 1, ChLowerA - 1, ChLowerF + 1}
    \cup (IF T = "char" THEN {ToElem(T, 255), ToElem(T, Ch0 + 128)}
                        ELSE {Ch0 + 256, ChLowerA + 256, 65535})

Replace(text, p, c) == [text EXCEPT ![p + 1] = c]
Insert(text, p, c) == SubSeq(text, 1, p) \o <<c>> \o SubSeq(text, p + 1, Len(text))
Delete(text, p) == SubSeq(text, 1, p) \o SubSeq(text, p + 2, Len(text))

\* the texts one edit away from text; the last unit, the terminator, stays
Edits(T, text) ==
    {Replace(text, p, c) : p \in 0..(Len(text) - 2), c \in EditUnits(T)}
    \cup {Insert(text, p, c) : p \in 0..(Len(text) - 1), c \in EditUnits(T)}
    \cup {Delete(text, p) : p \in 0..(Len(text) - 2)}

\* Operands of operator<: every field takes the values 0..MaxOrd of a
\* family in which neighbours differ in a low byte (0x01ff, 0x0200), in the
\* top bit, or in one byte of Data4 (0x00, 0x80, 0x7f).
MaxOrd == 2

OrdUInt16(i) == 511 + (i % 2) + (i \div 2) * 32768
OrdUInt32(i) == U32((i \div 2) * 32768, 511 + (i % 2))
OrdData4(i) == [j \in 1..8 |-> IF j < 8 - i THEN 0 ELSE IF j = 8 - i THEN 128 ELSE 127]

OrdGuids ==
    {MkGuid(OrdUInt32(a), OrdUInt16(b), OrdUInt16(c), OrdData4(d)) :
        a \in 0..MaxOrd, b \in 0..MaxOrd, c \in 0..MaxOrd, d \in 0..MaxOrd}

\* the second and third operand of a comparison of three: every field at
\* one end of its family
OrdCorners ==
    {MkGuid(OrdUInt32(a), OrdUInt16(b), OrdUInt16(c), OrdData4(d)) :
        a \in {0, MaxOrd}, b \in {0, MaxOrd}, c \in {0, MaxOrd}, d \in {0, MaxOrd}}

\* the byte codec calls of one behaviour are at most MaxCalls
MaxCalls == 2

\* Arguments of the nanocom.h functions: the ends of the int32_t range, the
\* codes around zero, the ends of the uint16_t range and the failure_* codes
Results ==
    {success_ok, 1, 14, 87, 32767, 32768, 65535, 65536, 2147483647,
     -1, -65536, -2147483647, -2147483647 - 1,
     failure_pending, failure_not_implemented, failure_no_interface, failure_abort,
     failure_unspecified, failure_unexpected, failure_access_denied,
     failure_out_of_memory, failure_invalid_argument, failure_not_found,
     failure_not_connected}

\* the exceptions a caller's code throws
ThrownTypes ==
    {"std::bad_alloc", "std::bad_array_new_length", "std::invalid_argument",
     "std::out_of_range", "std::length_error", "std::bad_function_call",
     "std::bad_cast", "std::bad_any_cast", "std::bad_exception",
     "std::runtime_error", "int"}

\* the fallbacks a caller passes: none, one that returns a code, one that throws
Fallbacks ==
    {[kind |-> "default"], [kind |-> "returns", value |-> failure_abort],
     [kind |-> "throws"]}

\* What the platform gives create_guid: a text of /proc/sys/kernel/random/uuid
\* with its newline, with one byte replaced or not, read whole, in part or
\* not at all, from a file that opens and closes or does not
GuidStrings ==
    {Replace(Body(Nib(k, 1), 0) \o << ChNewline >>, p, c) :
        k \in 0..MaxBase, p \in 0..(GuidStringSize - 1),
        c \in EditUnits("char") \cup {ChNewline}}

Platforms ==
    [platform : {"posix"}, fd : {-1, 3}, read : {-1, 0, 36, 37}, close : {-1, 0},
     guidString : GuidStrings]
    \cup [platform : {"win32"}, hr : {success_ok, 1, failure_unexpected, failure_out_of_memory},
          result : {GuidOfNib(Nib(k, 1)) : k \in 0..15}]

\* the largest capacity of a heap, in bytes
MaxHeap == 3

\* the heaps a behaviour starts from hold no block; CoTaskMemAlloc answers a
\* request of zero bytes with a block, malloc with a block or with null
Heaps ==
    { hp \in { [platform |-> pl, capacity |-> c, zero_null |-> z,
                blocks |-> [a \in 1..c |-> NoBlock]] :
                  pl \in {"posix", "win32"}, c \in 0..MaxHeap, z \in BOOLEAN } :
        hp.platform = "win32" => ~hp.zero_null }

Requests == 0..(MaxHeap + 1)

\* ------------------------------------------------------------------------
\* State
\* ------------------------------------------------------------------------

VARIABLES
    host,   \* byte order of the host
    T,      \* element type of the text buffers
    g,      \* the guid argument
    h,      \* the right operand of operator<
    u,      \* the uint8_t[16] argument
    str,    \* str[1], str[2]: the caller's NUL-terminated buffers
    fmt,    \* formatted_guid<T>(g), or NotRun
    res,    \* res[i]: parse_guid(str[i]) and res[0]: parse_guid(fmt.value)
    less,   \* [ret |-> g < h], or the results for three operands, or NotRun
    hist,   \* the byte codec calls made, in order, with argument and result
    hashes, \* the std::hash values of g and h, or NotRun
    result, \* the hresult (or Win32 code) argument
    exc,    \* the exception in flight, or NoException
    ret,    \* what the last call of a nanocom.h function did, or NotRun
    proc,   \* "running", or how the process ended: "abort", "terminate"
    env     \* what the host platform does when asked (file, heap), or NotRun

sysVars == <<result, exc, ret, proc, env>>

vars == <<host, T, g, h, u, str, fmt, res, less, hist, hashes, sysVars>>

NotRun == [run |-> FALSE]

NoException == [type |-> "none"]

\* no nanocom.h or platform call made yet
SysIdle ==
    /\ result = 0
    /\ exc = NoException
    /\ ret = NotRun
    /\ proc = "running"
    /\ env = NotRun

\* the buffer slot i names: the formatter's value (0) or the caller's str[i]
Slots == 0..2

\* formatted_guid<T> f(g);
FormatGuid ==
    /\ fmt' = formatted_guid(T, g)
    /\ UNCHANGED <<host, T, g, h, u, str, res, less, hist, hashes, sysVars>>

\* parse_guid(f.value) and parse_guid(str[i])
ParseGuid(i) ==
    /\ i = 0 => (fmt # NotRun /\ ~fmt.thrown)
    /\ res' = [res EXCEPT ![i] = parse_guid(T, IF i = 0 THEN fmt.value ELSE str[i])]
    /\ UNCHANGED <<host, T, g, h, u, str, fmt, less, hist, hashes, sysVars>>

\* the texts of one guid: str[1] in any spelling, str[2] the same text with
\* the braces toggled or in another case pattern
InitText ==
    /\ host = "little"
    /\ T \in ElemTypes
    /\ \E n \in NibSamples, braces \in BOOLEAN, mask \in 0..MaxMask :
         /\ g = GuidOfNib(n)
         /\ \/ str = <<Spell(n, braces, mask), Spell(n, ~braces, mask)>>
            \/ \E mask2 \in 0..MaxMask :
                 str = <<Spell(n, braces, mask), Spell(n, braces, mask2)>>
    /\ h = g
    /\ u = [i \in 1..16 |-> 0]
    /\ fmt = NotRun
    /\ res = [i \in Slots |-> NotRun]
    /\ less = NotRun
    /\ hist = <<>>
    /\ hashes = NotRun
    /\ SysIdle

NextText == FormatGuid \/ \E i \in Slots : ParseGuid(i)

SpecText == InitText /\ [][NextText]_vars

\* the texts one edit away from a well-formed text; str[2] is the text edited
InitMalformed ==
    /\ host = "little"
    /\ T \in ElemTypes
    /\ \E k \in 0..MaxBase, braces \in BOOLEAN :
         /\ g = GuidOfNib(Nib(k, 1))
         /\ \E text \in Edits(T, Spell(Nib(k, 1), braces, 1)) :
              str = <<text, Spell(Nib(k, 1), braces, 1)>>
    /\ h = g
    /\ u = [i \in 1..16 |-> 0]
    /\ fmt = NotRun
    /\ res = [i \in Slots |-> NotRun]
    /\ less = NotRun
    /\ hist = <<>>
    /\ hashes = NotRun
    /\ SysIdle

SpecMalformed == InitMalformed /\ [][NextText]_vars

\* encode_guid_as_variantK(g, u);
Encode(K) ==
    /\ Len(hist) < MaxCalls
    /\ u' = IF K = 1 THEN encode_guid_as_variant1(g) ELSE encode_guid_as_variant2(g)
    /\ hist' = Append(hist, [op |-> "encode", variant |-> K, arg |-> g, result |-> u'])
    /\ UNCHANGED <<host, T, g, h, str, fmt, res, less, hashes, sysVars>>

\* g = decode_guid_from_variantK(u);
Decode(K) ==
    /\ Len(hist) < MaxCalls
    /\ g' = IF K = 1 THEN decode_guid_from_variant1(u) ELSE decode_guid_from_variant2(u)
    /\ hist' = Append(hist, [op |-> "decode", variant |-> K, arg |-> u, result |-> g'])
    /\ UNCHANGED <<host, T, h, u, str, fmt, res, less, hashes, sysVars>>

InitBytes ==
    /\ host = "little"
    /\ T = "char"
    /\ \E n \in NibSamples : g = GuidOfNib(n)
    /\ \E n \in NibSamples : u = BytesOfNib(n)
    /\ h = g
    /\ str = <<<<ChNul>>, <<ChNul>>>>
    /\ fmt = NotRun
    /\ res = [i \in Slots |-> NotRun]
    /\ less = NotRun
    /\ hist = <<>>
    /\ hashes = NotRun
    /\ SysIdle

NextBytes == \E K \in 1..2 : Encode(K) \/ Decode(K)

SpecBytes == InitBytes /\ [][NextBytes]_vars

\* g < h
Less ==
    /\ less' = [ret |-> operator_less(g, h, host)]
    /\ UNCHANGED <<host, T, g, h, u, str, fmt, res, hist, hashes, sysVars>>

InitOrder ==
    /\ host \in Hosts
    /\ T = "char"
    /\ g \in OrdGuids
    /\ h \in OrdGuids
    /\ u = [i \in 1..16 |-> 0]
    /\ str = <<<<ChNul>>, <<ChNul>>>>
    /\ fmt = NotRun
    /\ res = [i \in Slots |-> NotRun]
    /\ less = NotRun
    /\ hist = <<>>
    /\ hashes = NotRun
    /\ SysIdle

NextOrder == Less

SpecOrder == InitOrder /\ [][NextOrder]_vars

\* x < y and x == y for every two of g, h and a third guid c
Compare(c) ==
    /\ less = NotRun
    /\ less' = [ops |-> <<g, h, c>>,
                lt |-> [i \in 1..3 |-> [j \in 1..3 |->
                          operator_less(<<g, h, c>>[i], <<g, h, c>>[j], host)]],
                eq |-> [i \in 1..3 |-> [j \in 1..3 |->
                          operator_eq(<<g, h, c>>[i], <<g, h, c>>[j], host)]]]
    /\ UNCHANGED <<host, T, g, h, u, str, fmt, res, hist, hashes, sysVars>>

InitTotal ==
    /\ host \in Hosts
    /\ T = "char"
    /\ g \in OrdGuids
    /\ h \in OrdCorners
    /\ u = [i \in 1..16 |-> 0]
    /\ str = <<<<ChNul>>, <<ChNul>>>>
    /\ fmt = NotRun
    /\ res = [i \in Slots |-> NotRun]
    /\ less = NotRun
    /\ hist = <<>>
    /\ hashes = NotRun
    /\ SysIdle

NextTotal == \E c \in OrdCorners : Compare(c)

SpecTotal == InitTotal /\ [][NextTotal]_vars

\* std::hash<mrf::guid>{}(g), std::hash<mrf::guid>{}(h), g == h
Hash ==
    /\ hashes = NotRun
    /\ hashes' = [left |-> hash(g, host, env.sizeof_size_t),
                  right |-> hash(h, host, env.sizeof_size_t),
                  eq |-> operator_eq(g, h, host)]
    /\ UNCHANGED <<host, T, g, h, u, str, fmt, res, less, hist, sysVars>>

\* a guid and either itself, the guid next to it or the example guid
InitHash ==
    /\ host \in Hosts
    /\ T = "char"
    /\ \E k \in 0..15, s \in 0..MaxStride :
         /\ g = GuidOfNib(Nib(k, s))
         /\ h \in {g, GuidOfNib(Nib((k + 1) % 16, s)), GuidOfNib(ExampleNib)}
    /\ u = [i \in 1..16 |-> 0]
    /\ str = <<<<ChNul>>, <<ChNul>>>>
    /\ fmt = NotRun
    /\ res = [i \in Slots |-> NotRun]
    /\ less = NotRun
    /\ hist = <<>>
    /\ hashes = NotRun
    /\ result = 0
    /\ exc = NoException
    /\ ret = NotRun
    /\ proc = "running"
    /\ \E size \in SizeofSizeT : env = [sizeof_size_t |-> size]

NextHash == Hash

SpecHash == InitHash /\ [][NextHash]_vars

\* is_success(result)
IsSuccess ==
    /\ proc = "running"
    /\ ret' = [call |-> "is_success", value |-> is_success(result)]
    /\ UNCHANGED <<host, T, g, h, u, str, fmt, res, less, hist, hashes, result, exc, proc, env>>

\* is_failure(result)
IsFailure ==
    /\ proc = "running"
    /\ ret' = [call |-> "is_failure", value |-> is_failure(result)]
    /\ UNCHANGED <<host, T, g, h, u, str, fmt, res, less, hist, hashes, result, exc, proc, env>>

\* hresult_failure f{result};
MakeFailure ==
    /\ proc = "running"
    /\ ret' = [call |-> "hresult_failure", code |-> hresult_failure(result).code]
    /\ proc' = IF hresult_failure(result).aborted THEN "abort" ELSE proc
    /\ UNCHANGED <<host, T, g, h, u, str, fmt, res, less, hist, hashes, result, exc, env>>

\* throw_if_failure(result);
ThrowIfFailure ==
    /\ proc = "running"
    /\ exc = NoException
    /\ ret' = [call |-> "throw_if_failure", returned |-> ~throw_if_failure(result).thrown]
    /\ exc' = IF throw_if_failure(result).thrown /\ ~throw_if_failure(result).aborted
              THEN throw_if_failure(result).exception
              ELSE exc
    /\ proc' = IF throw_if_failure(result).aborted THEN "abort" ELSE proc
    /\ UNCHANGED <<host, T, g, h, u, str, fmt, res, less, hist, hashes, result, env>>

\* the caller's code throws an exception of class type
Throw(type) ==
    /\ proc = "running"
    /\ exc = NoException
    /\ exc' = [type |-> type]
    /\ ret' = [call |-> "throw"]
    /\ UNCHANGED <<host, T, g, h, u, str, fmt, res, less, hist, hashes, result, proc, env>>

\* catch (...) { hr = current_exception_to_hresult(fallback); }, or the same
\* call with no exception in flight
CurrentExceptionToHresult ==
    /\ proc = "running"
    /\ ret' = [call |-> "current_exception_to_hresult", caught |-> exc]
                @@ current_exception_to_hresult(exc, env.fallback, env.no_stl)
    /\ exc' = NoException
    /\ proc' = IF current_exception_to_hresult(exc, env.fallback, env.no_stl).terminated
               THEN "terminate" ELSE proc
    /\ UNCHANGED <<host, T, g, h, u, str, fmt, res, less, hist, hashes, result, env>>

\* details::failure_from_win32(code) at run time, code = result
FailureFromWin32 ==
    /\ proc = "running"
    /\ exc = NoException
    /\ result \in 0..65535
    /\ ret' = [call |-> "failure_from_win32"] @@ failure_from_win32(result)
    /\ exc' = IF failure_from_win32(result).thrown
              THEN [type |-> failure_from_win32(result).type]
              ELSE exc
    /\ UNCHANGED <<host, T, g, h, u, str, fmt, res, less, hist, hashes, result, proc, env>>

InitResult ==
    /\ host = "little"
    /\ T = "char"
    /\ g = guid_null
    /\ h = guid_null
    /\ u = [i \in 1..16 |-> 0]
    /\ str = <<<<ChNul>>, <<ChNul>>>>
    /\ fmt = NotRun
    /\ res = [i \in Slots |-> NotRun]
    /\ less = NotRun
    /\ hist = <<>>
    /\ hashes = NotRun
    /\ result \in Results
    /\ exc = NoException
    /\ ret = NotRun
    /\ proc = "running"
    /\ \E fallback \in Fallbacks, no_stl \in BOOLEAN :
         env = [fallback |-> fallback, no_stl |-> no_stl]

NextResult ==
    \/ IsSuccess
    \/ IsFailure
    \/ MakeFailure
    \/ ThrowIfFailure
    \/ \E type \in ThrownTypes : Throw(type)
    \/ CurrentExceptionToHresult
    \/ FailureFromWin32

SpecResult == InitResult /\ [][NextResult]_vars

\* guid id = create_guid();
CreateGuid ==
    /\ proc = "running"
    /\ ret = NotRun
    /\ ret' = [call |-> "create_guid"] @@ create_guid(env)
    /\ proc' = create_guid(env).proc
    /\ UNCHANGED <<host, T, g, h, u, str, fmt, res, less, hist, hashes, result, exc, env>>

InitCreate ==
    /\ host = "little"
    /\ T = "char"
    /\ g = guid_null
    /\ h = guid_null
    /\ u = [i \in 1..16 |-> 0]
    /\ str = <<<<ChNul>>, <<ChNul>>>>
    /\ fmt = NotRun
    /\ res = [i \in Slots |-> NotRun]
    /\ less = NotRun
    /\ hist = <<>>
    /\ hashes = NotRun
    /\ result = 0
    /\ exc = NoException
    /\ ret = NotRun
    /\ proc = "running"
    /\ env \in Platforms

NextCreate == CreateGuid

SpecCreate == InitCreate /\ [][NextCreate]_vars

\* void* p = nanocom_alloc(numBytes);
NanocomAlloc(numBytes) ==
    /\ proc = "running"
    /\ ret' = [call |-> "nanocom_alloc", numBytes |-> numBytes, before |-> env,
               p |-> nanocom_alloc(numBytes, env).p]
    /\ env' = nanocom_alloc(numBytes, env).heap
    /\ proc' = nanocom_alloc(numBytes, env).proc
    /\ UNCHANGED <<host, T, g, h, u, str, fmt, res, less, hist, hashes, result, exc>>

\* nanocom_free(p); for p null or a block obtained from nanocom_alloc and
\* not yet freed
NanocomFree(p) ==
    /\ proc = "running"
    /\ p = Null \/ (p \in 1..env.capacity /\ env.blocks[p] # NoBlock)
    /\ ret' = [call |-> "nanocom_free", before |-> env, p |-> p]
    /\ env' = nanocom_free(p, env).heap
    /\ proc' = nanocom_free(p, env).proc
    /\ UNCHANGED <<host, T, g, h, u, str, fmt, res, less, hist, hashes, result, exc>>

InitAlloc ==
    /\ host = "little"
    /\ T = "char"
    /\ g = guid_null
    /\ h = guid_null
    /\ u = [i \in 1..16 |-> 0]
    /\ str = <<<<ChNul>>, <<ChNul>>>>
    /\ fmt = NotRun
    /\ res = [i \in Slots |-> NotRun]
    /\ less = NotRun
    /\ hist = <<>>
    /\ hashes = NotRun
    /\ result = 0
    /\ exc = NoException
    /\ ret = NotRun
    /\ proc = "running"
    /\ env \in Heaps

NextAlloc ==
    \/ \E numBytes \in Requests : NanocomAlloc(numBytes)
    \/ \E p \in 0..MaxHeap : NanocomFree(p)

SpecAlloc == InitAlloc /\ [][NextAlloc]_vars

\* ------------------------------------------------------------------------
\* The textual form, stated on the text itself
\* ------------------------------------------------------------------------

IsHexUnit(c) ==
    c \in (Ch0..Ch9) \cup (ChLowerA..ChLowerF) \cup (ChUpperA..ChUpperF)

\* 0-based offsets of the four separators in a body
DashOffsets == {8, 13, 18, 23}

\* the offset of the first NUL of a buffer
FirstNul(text) == CHOOSE z \in 0..(Len(text) - 1) :
                      /\ text[z + 1] = ChNul
                      /\ \A y \in 0..(z - 1) : text[y + 1] # ChNul

\* the unit at offset j is one the grammar allows there, for a text that
\* starts with '{' (open = 1) or does not (open = 0)
Allowed(text, open, j) ==
    LET c == text[j + 1]
    IN IF j < open THEN c = ChOpen
       ELSE IF j - open < 36
       THEN IF j - open \in DashOffsets THEN c = ChMinus ELSE IsHexUnit(c)
       ELSE IF j - open = 36 /\ open = 1 THEN c = ChClose
       ELSE c = ChNul

HasOpen(text) == IF text[1] = ChOpen THEN 1 ELSE 0

\* the offset of the terminator of a well-formed text
EndOffset(open) == 36 + 2 * open

\* guid := '{' body '}' NUL | body NUL
InGrammar(text) ==
    /\ FirstNul(text) = EndOffset(HasOpen(text))
    /\ \A j \in 0..EndOffset(HasOpen(text)) : Allowed(text, HasOpen(text), j)

\* the offset of the first unit of an ill-formed text that the grammar does
\* not allow where it stands
FirstOffending(text) ==
    CHOOSE j \in 0..FirstNul(text) :
        /\ ~Allowed(text, HasOpen(text), j)
        /\ \A i \in 0..(j - 1) : Allowed(text, HasOpen(text), i)

\* the value of a hex digit, either case
DigitValue(c) == CHOOSE v \in 0..15 : c = HexDigit(v, TRUE) \/ c = HexDigit(v, FALSE)

\* the 32 hex digits of a well-formed text, in order
TextDigits(text) ==
    LET open == HasOpen(text)
        Off(i) == open + (i - 1) + (IF i > 20 THEN 4 ELSE IF i > 16 THEN 3
                                    ELSE IF i > 12 THEN 2 ELSE IF i > 8 THEN 1 ELSE 0)
    IN [i \in 1..32 |-> DigitValue(text[Off(i) + 1])]

\* the 32 hex digits of a guid, most significant first in each field
RECURSIVE Pow16(_)
Pow16(n) == IF n = 0 THEN 1 ELSE 16 * Pow16(n - 1)

GuidDigits(x) ==
    [i \in 1..32 |->
        IF i <= 4 THEN (x.Data1.hi \div Pow16(4 - i)) % 16
        ELSE IF i <= 8 THEN (x.Data1.lo \div Pow16(8 - i)) % 16
        ELSE IF i <= 12 THEN (x.Data2 \div Pow16(12 - i)) % 16
        ELSE IF i <= 16 THEN (x.Data3 \div Pow16(16 - i)) % 16
        ELSE (x.Data4[(i - 15) \div 2] \div Pow16((i - 16) % 2)) % 16]

\* "{00112233-4455-6677-8899-aabbccddeeff}" and its terminator
ExampleText ==
    << 123, 48, 48, 49, 49, 50, 50, 51, 51, 45, 52, 52, 53, 53, 45,
       54, 54, 55, 55, 45, 56, 56, 57, 57, 45,
       97, 97, 98, 98, 99, 99, 100, 100, 101, 101, 102, 102, 125, 0 >>

ExampleGuid ==
    MkGuid(U32(17, 8755), 17493, 26231, <<136, 153, 170, 187, 204, 221, 238, 255>>)

\* ------------------------------------------------------------------------
\* Properties of the text codec (SpecText)
\* ------------------------------------------------------------------------

\* C1: parsing the text the formatter produced for g returns g, for the
\* byte-char and the wide-char element type alike.
TextRoundTrip ==
    res[0] # NotRun => (~res[0].thrown /\ res[0].guid = g)

TextRoundTripWitness ==
    /\ T = "wchar_t"
    /\ res[0] # NotRun
    /\ g = GuidOfNib(Nib(15, 0))

\* C3: a well-formed text parses to the guid whose Data1, Data2, Data3 and
\* Data4[0..7] are the values of its 8, 4, 4 and 8 x 2 hex digits, each run
\* read most significant digit first; the all-zero text parses to guid_null.
ParseReadsFields ==
    \A i \in 1..2 :
        (res[i] # NotRun /\ InGrammar(str[i])) =>
            /\ ~res[i].thrown
            /\ res[i].guid = GuidOfNib(TextDigits(str[i]))
            /\ (\A k \in 1..32 : TextDigits(str[i])[k] = 0) => res[i].guid = guid_null

ParseReadsFieldsWitness ==
    /\ res[1] # NotRun
    /\ InGrammar(str[1])
    /\ str[1] = Spell(ExampleNib, TRUE, 1)
    /\ res[1].guid = ExampleGuid

\* C4: formatting any guid throws no format_error and gives 39 elements:
\* '{' at 0, '-' at 9, 14, 19 and 24, '}' at 37, the terminator at 38 and
\* lower-case hex digits elsewhere, which are the digits of Data1, Data2,
\* Data3, Data4[0..1], Data4[2..7], most significant half-byte first.
FormatLayout ==
    fmt # NotRun =>
        /\ ~fmt.thrown
        /\ Len(fmt.value) = 39
        /\ \A i \in 0..38 :
             LET c == fmt.value[i + 1]
             IN IF i = 0 THEN c = ChOpen
                ELSE IF i \in {9, 14, 19, 24} THEN c = ChMinus
                ELSE IF i = 37 THEN c = ChClose
                ELSE IF i = 38 THEN c = ChNul
                ELSE c \in (Ch0..Ch9) \cup (ChLowerA..ChLowerF)
        /\ TextDigits(fmt.value) = GuidDigits(g)
        /\ g = ExampleGuid => fmt.value = ExampleText

FormatLayoutWitness ==
    /\ fmt # NotRun
    /\ g = ExampleGuid
    /\ fmt.value = ExampleText

\* C9: a well-formed body parses to the same guid with and without the
\* braces around it, and both parses succeed.
BraceOptional ==
    (/\ res[1] # NotRun
     /\ res[2] # NotRun
     /\ InGrammar(str[1])
     /\ HasOpen(str[1]) # HasOpen(str[2])
     /\ TextDigits(str[1]) = TextDigits(str[2])
     /\ InGrammar(str[2]))
    => (/\ ~res[1].thrown
        /\ ~res[2].thrown
        /\ res[1].guid = res[2].guid)

BraceOptionalWitness ==
    /\ res[1] # NotRun
    /\ res[2] # NotRun
    /\ ~res[1].thrown
    /\ HasOpen(str[1]) = 1
    /\ HasOpen(str[2]) = 0
    /\ SubSeq(str[1], 2, 37) = SubSeq(str[2], 1, 36)

\* a-f for A-F, every other unit unchanged
LowerCase(c) == IF c \in ChUpperA..ChUpperF THEN c - ChUpperA + ChLowerA ELSE c

SameUpToCase(a, b) ==
    /\ Len(a) = Len(b)
    /\ \A i \in 1..Len(a) : LowerCase(a[i]) = LowerCase(b[i])

\* C10: two well-formed texts that differ only in the case of hex letters
\* are both accepted and parse to equal guids.
CaseInsensitive ==
    (/\ res[1] # NotRun
     /\ res[2] # NotRun
     /\ InGrammar(str[1])
     /\ SameUpToCase(str[1], str[2]))
    => (/\ ~res[1].thrown
        /\ ~res[2].thrown
        /\ res[1].guid = res[2].guid)

CaseInsensitiveWitness ==
    /\ res[1] # NotRun
    /\ res[2] # NotRun
    /\ ~res[1].thrown
    /\ str[1] # str[2]
    /\ SameUpToCase(str[1], str[2])
    /\ \E i \in 1..Len(str[1]) : str[1][i] \in ChUpperA..ChUpperF
    /\ \E i \in 1..Len(str[1]) : str[1][i] \in ChLowerA..ChLowerF

\* C2: an input outside the grammar yields no guid: parse_guid throws
\* parse_error, and parsePoint is the offset of the first unit that the
\* grammar does not allow where it stands (a non-hex unit or the terminator
\* in place of a digit, a unit in place of '-', of '}' or of the terminator).
MalformedRejected ==
    (res[1] # NotRun /\ ~InGrammar(str[1])) =>
        /\ res[1].thrown
        /\ res[1].parsePoint = FirstOffending(str[1])

\* G written for the last digit of a braced text
MalformedRejectedWitness ==
    /\ res[1] # NotRun
    /\ HasOpen(str[1]) = 1
    /\ str[1] = Replace(str[2], 36, ChUpperF + 1)
    /\ res[1].thrown
    /\ res[1].parsePoint = 36

\* ------------------------------------------------------------------------
\* Properties of the byte codec (SpecBytes)
\* ------------------------------------------------------------------------

\* the bytes of a 16-bit value, most significant first
BigEndian16(x) == << x \div 256, x % 256 >>
LittleEndian16(x) == << x % 256, x \div 256 >>

Variant1Bytes(x) ==
    BigEndian16(x.Data1.hi) \o BigEndian16(x.Data1.lo)
        \o BigEndian16(x.Data2) \o BigEndian16(x.Data3) \o x.Data4

Variant2Bytes(x) ==
    LittleEndian16(x.Data1.lo) \o LittleEndian16(x.Data1.hi)
        \o LittleEndian16(x.Data2) \o LittleEndian16(x.Data3) \o x.Data4

\* 00 11 22 33 44 55 66 77 88 99 aa bb cc dd ee ff
ExampleVariant1 ==
    << 0, 17, 34, 51, 68, 85, 102, 119, 136, 153, 170, 187, 204, 221, 238, 255 >>

\* 33 22 11 00 55 44 77 66 88 99 aa bb cc dd ee ff
ExampleVariant2 ==
    << 51, 34, 17, 0, 85, 68, 119, 102, 136, 153, 170, 187, 204, 221, 238, 255 >>

Called(i, op, K) == hist[i].op = op /\ hist[i].variant = K

\* C5: encode_guid_as_variant1 writes Data1, Data2 and Data3 most
\* significant byte first and then Data4 unchanged; the example guid gives
\* 00 11 22 33 44 55 66 77 88 99 aa bb cc dd ee ff.
Variant1BigEndian ==
    \A i \in 1..Len(hist) :
        Called(i, "encode", 1) =>
            /\ hist[i].result = Variant1Bytes(hist[i].arg)
            /\ hist[i].arg = ExampleGuid => hist[i].result = ExampleVariant1

Variant1BigEndianWitness ==
    /\ Len(hist) = 1
    /\ Called(1, "encode", 1)
    /\ hist[1].arg = ExampleGuid
    /\ u = ExampleVariant1

\* C6: encode_guid_as_variant2 writes Data1, Data2 and Data3 least
\* significant byte first and then Data4 unchanged; the example guid gives
\* 33 22 11 00 55 44 77 66 88 99 aa bb cc dd ee ff.
Variant2LittleEndian ==
    \A i \in 1..Len(hist) :
        Called(i, "encode", 2) =>
            /\ hist[i].result = Variant2Bytes(hist[i].arg)
            /\ hist[i].arg = ExampleGuid => hist[i].result = ExampleVariant2

Variant2LittleEndianWitness ==
    /\ Len(hist) = 1
    /\ Called(1, "encode", 2)
    /\ hist[1].arg = ExampleGuid
    /\ u = ExampleVariant2

IsByteArray(x) == Len(x) = 16 /\ \A j \in 1..16 : x[j] \in 0..255

IsGuidValue(x) ==
    /\ x.Data1.hi \in 0..65535
    /\ x.Data1.lo \in 0..65535
    /\ x.Data2 \in 0..65535
    /\ x.Data3 \in 0..65535
    /\ \A j \in 1..8 : x.Data4[j] \in 0..255

\* C7: for K = 1 and K = 2, decoding what encode wrote for g gives g, and
\* encoding what decode read from u gives u; every byte and field stays in
\* the range of its type.
BytesRoundTrip ==
    /\ \A i \in 1..Len(hist) :
         IF hist[i].op = "encode" THEN IsByteArray(hist[i].result)
                                  ELSE IsGuidValue(hist[i].result)
    /\ \A i \in 1..(Len(hist) - 1), K \in 1..2 :
         /\ (Called(i, "encode", K) /\ Called(i + 1, "decode", K))
                => hist[i + 1].result = hist[i].arg
         /\ (Called(i, "decode", K) /\ Called(i + 1, "encode", K))
                => hist[i + 1].result = hist[i].arg

\* a guid with bytes above 0x7f went through variant 1, an array with bytes
\* above 0x7f through variant 2
BytesRoundTripWitness ==
    /\ Len(hist) = 2
    /\ \/ /\ Called(1, "encode", 1)
          /\ Called(2, "decode", 1)
          /\ hist[1].arg = GuidOfNib(Nib(15, 0))
          /\ g = hist[1].arg
       \/ /\ Called(1, "decode", 2)
          /\ Called(2, "encode", 2)
          /\ hist[1].arg = BytesOfNib(Nib(8, 1))
          /\ u = hist[1].arg

\* ------------------------------------------------------------------------
\* Properties of operator< (SpecOrder)
\* ------------------------------------------------------------------------

\* (Data1, Data2, Data3, Data4[0], ..., Data4[7]); Data1 stands as its two
\* 16-bit halves, whose order as a pair is the order of the 32-bit values
FieldTuple(x) == << x.Data1.hi, x.Data1.lo, x.Data2, x.Data3 >> \o x.Data4

LexLess(a, b) ==
    \E i \in 1..Len(a) : a[i] < b[i] /\ \A j \in 1..(i - 1) : a[j] = b[j]

\* C8: g < h exactly when the field tuple of g is lexicographically smaller
\* than that of h, the components compared as unsigned values, on a
\* little-endian and on a big-endian host alike.
LessIsLexicographic ==
    less # NotRun => (less.ret <=> LexLess(FieldTuple(g), FieldTuple(h)))

\* 0x000001ff < 0x00000200 on a little-endian host, where the first byte in
\* memory is 0xff for g and 0x00 for h
LessIsLexicographicWitness ==
    /\ less # NotRun
    /\ host = "little"
    /\ less.ret
    /\ g.Data1 = OrdUInt32(0)
    /\ h.Data1 = OrdUInt32(1)

\* ------------------------------------------------------------------------
\* Properties of std::hash<mrf::guid> (SpecHash)
\*
\* FNV-1a is stated on words of w bits written as w / 4 hex digits, least
\* significant first, and its parameters by their decimal digits.
\* ------------------------------------------------------------------------

\* 14695981039346656037 and 1099511628211
Basis64 == << 1, 4, 6, 9, 5, 9, 8, 1, 0, 3, 9, 3, 4, 6, 6, 5, 6, 0, 3, 7 >>
Prime64 == << 1, 0, 9, 9, 5, 1, 1, 6, 2, 8, 2, 1, 1 >>
\* 2166136261 and 16777619
Basis32 == << 2, 1, 6, 6, 1, 3, 6, 2, 6, 1 >>
Prime32 == << 1, 6, 7, 7, 7, 6, 1, 9 >>

\* the sequence f with every element computed
Enumerated(f) == f \o <<>>

\* the decimal digits of d \div 2
DecHalf(d) ==
    Enumerated([i \in 1..Len(d) |-> ((IF i > 1 THEN d[i - 1] % 2 ELSE 0) * 10 + d[i]) \div 2])

\* d modulo 2
DecOdd(d) == d[Len(d)] % 2

\* d modulo 16, from d, d \div 2, d \div 4 and d \div 8
LowHex(d, d2, d4, d8) == DecOdd(d) + 2 * DecOdd(d2) + 4 * DecOdd(d4) + 8 * DecOdd(d8)

\* the n low hex digits of the number with decimal digits d
RECURSIVE DecHexFrom(_, _)
DecHexFrom(d, n) ==
    IF n = 0 THEN <<>>
    ELSE << LowHex(d, DecHalf(d), DecHalf(DecHalf(d)), DecHalf(DecHalf(DecHalf(d)))) >>
             \o DecHexFrom(DecHalf(DecHalf(DecHalf(DecHalf(d)))), n - 1)

\* the w / 4 low hex digits of the number with decimal digits d
DecHex(d, w) == DecHexFrom(d, w \div 4)

\* a xor the byte b
XorByteHex(a, b) ==
    Enumerated([i \in 1..Len(a) |->
        IF i = 1 THEN Xor4(a[1], b % 16) ELSE IF i = 2 THEN Xor4(a[2], b \div 16) ELSE a[i]])

\* a * 16^n modulo 16^Len(a)
ShiftHex(a, n) == Enumerated([i \in 1..Len(a) |-> IF i > n THEN a[i - n] ELSE 0])

\* a * m + b modulo 16^Len(a) for a hex digit m, from digit i on with the
\* carry into it
RECURSIVE ScaleAddFrom(_, _, _, _, _, _)
ScaleAddFrom(a, m, b, i, carry, acc) ==
    IF Len(acc) = Len(a) THEN acc
    ELSE ScaleAddFrom(a, m, b, i + 1, (a[i] * m + b[i] + carry) \div 16,
                      Append(acc, (a[i] * m + b[i] + carry) % 16))

\* a * p modulo 16^Len(a): the sum of a * p[i] * 16^(i - 1) over the digits
\* of p
RECURSIVE MulHexFrom(_, _, _, _)
MulHexFrom(a, p, i, acc) ==
    IF i > Len(acc) THEN acc
    ELSE MulHexFrom(a, p, i + 1,
                    IF p[i] = 0 THEN acc
                    ELSE ScaleAddFrom(ShiftHex(a, i - 1), p[i], acc, 1, 0, <<>>))

MulHex(a, p) ==
    IF Len(a) = Len(p) THEN MulHexFrom(a, p, 1, Enumerated([i \in 1..Len(a) |-> 0]))
    ELSE <<>>

\* FNV-1a of bytes[next..] continued from the accumulator acc, for an
\* accumulator and a prime of the same width
RECURSIVE Fnv1aFrom(_, _, _, _)
Fnv1aFrom(bytes, next, acc, prime) ==
    IF Len(acc) # Len(prime) \/ next > Len(bytes) THEN acc
    ELSE Fnv1aFrom(bytes, next + 1, MulHex(XorByteHex(acc, bytes[next]), prime), prime)

Fnv1aWith(bytes, basis, prime) == Fnv1aFrom(bytes, 1, basis, prime)

Fnv1a(bytes, w) ==
    IF w = 64 THEN Fnv1aWith(bytes, DecHex(Basis64, 64), DecHex(Prime64, 64))
              ELSE Fnv1aWith(bytes, DecHex(Basis32, 32), DecHex(Prime32, 32))

\* the hex digits of a size_t
SizeTHex(x) ==
    Enumerated([i \in 1..(2 * Len(x)) |->
        IF i % 2 = 1 THEN x[(i + 1) \div 2] % 16 ELSE x[i \div 2] \div 16])

\* the 16 bytes of a guid in the memory of a host
MemoryBytes(x, byteOrder) ==
    IF byteOrder = "big" THEN Variant1Bytes(x) ELSE Variant2Bytes(x)

\* C11: the hash of a guid is FNV-1a over its 16 bytes in memory order, with
\* (basis, prime) = (14695981039346656037, 1099511628211) modulo 2^64 where
\* size_t has 64 bits and (2166136261, 16777619) modulo 2^32 where it has
\* 32; and g == h implies hash(g) = hash(h).
HashIsFnv1a ==
    hashes # NotRun =>
        /\ SizeTHex(hashes.left) = Fnv1a(MemoryBytes(g, host), 8 * env.sizeof_size_t)
        /\ SizeTHex(hashes.right) = Fnv1a(MemoryBytes(h, host), 8 * env.sizeof_size_t)
        /\ hashes.eq => hashes.left = hashes.right
        /\ (h = ExampleGuid /\ host = "big" /\ env.sizeof_size_t = 8)
               => hashes.right = << 245, 62, 27, 116, 138, 155, 163, 82 >>
        /\ (h = ExampleGuid /\ host = "little" /\ env.sizeof_size_t = 4)
               => hashes.right = << 193, 95, 107, 164 >>

\* the example guid hashed in 64 bits on a big-endian host, or an equal pair
\* hashed
HashIsFnv1aWitness ==
    /\ hashes # NotRun
    /\ env.sizeof_size_t = 8
    /\ host = "big"
    /\ \/ h = ExampleGuid /\ hashes.right = << 245, 62, 27, 116, 138, 155, 163, 82 >>
       \/ hashes.eq /\ g = h

\* ------------------------------------------------------------------------
\* Properties of the result codes (SpecResult)
\* ------------------------------------------------------------------------

Made(call) == ret # NotRun /\ ret.call = call

\* C12: is_success(r) is true exactly when r >= 0 and is_failure(r) exactly
\* when r < 0, so exactly one of them holds, for 0, INT32_MIN and INT32_MAX
\* as for every other r.
ResultPredicates ==
    /\ Made("is_success") => (ret.value <=> result >= 0)
    /\ Made("is_failure") => (ret.value <=> result < 0)
    /\ is_success(result) # is_failure(result)

ResultPredicatesWitness ==
    /\ Made("is_success")
    /\ result = 0
    /\ ret.value

\* what catching an exception of class type yields by the table, the
\* classes derived from a listed class being cases of it
TableCode(e, fallback) ==
    CASE e.type = "hresult_failure" -> e.code
      [] e.type \in {"std::bad_alloc", "std::bad_array_new_length"} -> failure_out_of_memory
      [] e.type = "std::invalid_argument" -> failure_invalid_argument
      [] e.type = "std::out_of_range" -> failure_not_found
      [] e.type = "std::bad_function_call" -> failure_not_implemented
      [] e.type \in {"std::bad_cast", "std::bad_any_cast"} -> failure_no_interface
      [] e.type = "std::bad_exception" -> failure_unexpected
      [] OTHER -> IF fallback.kind = "returns" THEN fallback.value ELSE failure_unexpected

\* the call returned the table's code; where the table says fallback() and
\* the fallback throws, the exception did not leave the function
FollowsTable ==
    IF ret.terminated
    THEN /\ ret.fallback_called
         /\ env.fallback.kind = "throws"
         /\ proc = "terminate"
    ELSE /\ ret.value = TableCode(ret.caught, env.fallback)
         /\ proc = "running"

\* C13 as stated: whatever the build, the exception in flight is mapped as
\* the table states.
ExceptionTableAnyBuild ==
    (Made("current_exception_to_hresult") /\ ret.caught # NoException) => FollowsTable

\* C13, amended: in a build without MRFOUNDATION_NO_STL the exception in
\* flight is mapped as the table states; in a build with it, an
\* hresult_failure yields its code and every other exception yields
\* fallback().  No exception leaves the function.
ExceptionTable ==
    (Made("current_exception_to_hresult") /\ ret.caught # NoException) =>
        IF ~env.no_stl \/ ret.caught.type = "hresult_failure"
        THEN FollowsTable
        ELSE /\ ret.fallback_called
             /\ IF env.fallback.kind = "throws"
                THEN ret.terminated /\ proc = "terminate"
                ELSE /\ ~ret.terminated
                     /\ ret.value = TableCode([type |-> "int"], env.fallback)
                     /\ proc = "running"

\* an out_of_range came back as failure_not_found
ExceptionTableWitness ==
    /\ Made("current_exception_to_hresult")
    /\ ~env.no_stl
    /\ ret.caught = [type |-> "std::out_of_range"]
    /\ ret.value = failure_not_found
    /\ ~ret.fallback_called

\* C14: throw_if_failure(r) throws an hresult_failure whose code is r when
\* r is a failure, and otherwise returns without throwing or ending the
\* process.
ThrowIfFailureContract ==
    Made("throw_if_failure") =>
        /\ proc = "running"
        /\ IF result < 0
           THEN ~ret.returned /\ exc = [type |-> "hresult_failure", code |-> result]
           ELSE ret.returned /\ exc = NoException

ThrowIfFailureContractWitness ==
    /\ Made("throw_if_failure")
    /\ result = failure_invalid_argument
    /\ exc = [type |-> "hresult_failure", code |-> failure_invalid_argument]

\* C15: for a failure code r, throw_if_failure(r) unwinds, and
\* current_exception_to_hresult in a handler of that unwind returns r
\* without calling the fallback, whatever the fallback is.
PromoteDemote ==
    /\ (Made("throw_if_failure") /\ result < 0) => exc.type = "hresult_failure"
    /\ (Made("current_exception_to_hresult") /\ ret.caught.type = "hresult_failure") =>
           /\ result < 0
           /\ ~ret.terminated
           /\ ret.value = result
           /\ ~ret.fallback_called
           /\ exc = NoException

\* failure_out_of_memory came back, with a fallback that would have thrown
PromoteDemoteWitness ==
    /\ Made("current_exception_to_hresult")
    /\ result = failure_out_of_memory
    /\ ret.caught = [type |-> "hresult_failure", code |-> failure_out_of_memory]
    /\ ret.value = failure_out_of_memory
    /\ env.fallback.kind = "throws"

\* C16: constructing an hresult_failure from a success code ends the
\* process, so an hresult_failure that exists carries a failure code.
FailureCarriesFailure ==
    /\ Made("hresult_failure") =>
           IF result >= 0 THEN proc = "abort"
           ELSE proc = "running" /\ ret.code = result
    /\ exc.type = "hresult_failure" => exc.code < 0

FailureCarriesFailureWitness ==
    /\ Made("hresult_failure")
    /\ result = success_ok
    /\ proc = "abort"

\* 0x80070000 as an int32_t
Win32Facility == -2147024896

\* C17: for a 16-bit code e # 0, failure_from_win32(e) is 0x80070000 | e as
\* an int32_t, negative and with e in its low 16 bits; e = 0 throws
\* invalid_win32_error_code; and the failure_* constants have the listed
\* values, all negative.
Win32Encoding ==
    /\ Made("failure_from_win32") =>
           IF result = 0
           THEN ret.thrown /\ exc = [type |-> "details::invalid_win32_error_code"]
           ELSE /\ ~ret.thrown
                /\ ret.value = Win32Facility + result
                /\ ret.value < 0
                /\ ret.value % 65536 = result
                /\ exc = NoException
    /\ failure_pending = -2147483638
    /\ failure_not_implemented = -2147467263
    /\ failure_no_interface = -2147467262
    /\ failure_abort = -2147467260
    /\ failure_unspecified = -2147467259
    /\ failure_unexpected = -2147418113
    /\ failure_access_denied = -2147024891
    /\ failure_invalid_handle = -2147024890
    /\ failure_invalid_data = -2147024883
    /\ failure_out_of_memory = -2147024882
    /\ failure_not_ready = -2147024875
    /\ failure_bad_command = -2147024874
    /\ failure_not_supported = -2147024846
    /\ failure_invalid_argument = -2147024809
    /\ failure_insufficient_buffer = -2147024774
    /\ failure_more_data = -2147024662
    /\ failure_no_more_items = -2147024637
    /\ failure_operation_aborted = -2147023901
    /\ failure_io_pending = -2147023899
    /\ failure_not_found = -2147023728
    /\ failure_cancelled = -2147023673
    /\ failure_driver_process_terminated = -2147023605
    /\ failure_device_removed = -2147023279
    /\ failure_not_connected = -2147022646

Win32EncodingWitness ==
    /\ Made("failure_from_win32")
    /\ result = 87
    /\ ret.value = failure_invalid_argument

\* ------------------------------------------------------------------------
\* Properties of create_guid (SpecCreate)
\* ------------------------------------------------------------------------

\* the 36 bytes before the last are an unbraced text of the grammar
WellFormedUnbraced(bytes) ==
    /\ ChNul \notin {bytes[i] : i \in 1..36}
    /\ HasOpen(bytes) = 0
    /\ InGrammar(SubSeq(bytes, 1, 36) \o << ChNul >>)

\* C18: create_guid returns a guid or ends the process, and throws nothing
\* to its caller; off Windows the process ends when the source does not
\* open, fewer than 37 bytes are read, the 37th byte is not a newline, the
\* close fails, or the 36 bytes read are not a well-formed unbraced text.
CreateGuidOrDie ==
    Made("create_guid") =>
        /\ exc = NoException
        /\ ret.proc = proc
        /\ IF proc = "running" THEN IsGuidValue(ret.value) ELSE proc \in {"abort", "terminate"}
        /\ (/\ env.platform = "posix"
            /\ \/ env.fd < 0
               \/ env.read < 37
               \/ env.guidString[37] # ChNewline
               \/ env.close # 0
               \/ ~WellFormedUnbraced(env.guidString))
           => proc # "running"

\* everything went well but the close
CreateGuidOrDieWitness ==
    /\ Made("create_guid")
    /\ env.platform = "posix"
    /\ env.fd >= 0
    /\ env.read = 37
    /\ env.guidString[37] = ChNewline
    /\ WellFormedUnbraced(env.guidString)
    /\ env.close # 0
    /\ proc = "abort"

\* ------------------------------------------------------------------------
\* The allocator facade
\* ------------------------------------------------------------------------

\* the bytes the live blocks of a heap take
LiveBytes(heap) ==
    Cardinality({<<a, i>> \in (1..heap.capacity) \X (1..(MaxHeap + 1)) :
        /\ heap.blocks[a] # NoBlock
        /\ i <= (IF heap.blocks[a] = 0 THEN 1 ELSE heap.blocks[a])})

\* the heap cannot provide numBytes more
CannotProvide(heap, numBytes) ==
    numBytes > 0 /\ LiveBytes(heap) + numBytes > heap.capacity

\* C19 as stated: when nanocom_alloc cannot obtain the requested memory from
\* the underlying heap, the process aborts.
HeapFailureAborts ==
    (Made("nanocom_alloc") /\ CannotProvide(ret.before, ret.numBytes))
        => proc = "abort"

\* C19: when nanocom_alloc cannot obtain the requested memory from the
\* underlying heap, it returns a null pointer, the heap is as it was and the
\* process goes on; a pointer that is not null is a block of the requested
\* size that was not live before, and nanocom_free of null changes nothing.
HeapFailureIsNull ==
    /\ (Made("nanocom_alloc") /\ CannotProvide(ret.before, ret.numBytes))
        => (ret.p = Null /\ env = ret.before /\ proc = "running")
    /\ (Made("nanocom_alloc") /\ ret.p # Null)
        => /\ ret.before.blocks[ret.p] = NoBlock
           /\ env.blocks[ret.p] = ret.numBytes
           /\ proc = "running"
    /\ (Made("nanocom_free") /\ ret.p = Null)
        => (env = ret.before /\ proc = "running")

HeapFailureIsNullWitness ==
    /\ Made("nanocom_alloc")
    /\ LiveBytes(ret.before) > 0
    /\ CannotProvide(ret.before, ret.numBytes)
    /\ ret.numBytes <= ret.before.capacity
    /\ ret.p = Null
    /\ proc = "running"

\* ------------------------------------------------------------------------
\* The reads of the parser (SpecMalformed)
\* ------------------------------------------------------------------------

\* the offsets parse_guid(str[i]) read, in the order of the reads
Reads(i) == res[i].reads

\* C20: parse_guid reads no unit after the first NUL of its input.  A read
\* of the NUL is the last read, but for the probe for '{' at the start; it
\* ends the parse with parse_error where the grammar requires a hex digit,
\* '-' or '}', and with the guid where it requires the terminator, and every
\* successful parse ends with it.
NoReadPastNul ==
    \A i \in 1..2 : res[i] # NotRun =>
        /\ Len(Reads(i)) > 0
        /\ \A j \in 1..Len(Reads(i)) :
             /\ Reads(i)[j] <= FirstNul(str[i])
             /\ (Reads(i)[j] = FirstNul(str[i]) /\ j > 1) =>
                  /\ j = Len(Reads(i))
                  /\ res[i].thrown <=> FirstNul(str[i]) # EndOffset(HasOpen(str[i]))
        /\ ~res[i].thrown => Reads(i)[Len(Reads(i))] = FirstNul(str[i])

\* a NUL in place of the sixth unit, with the rest of the text after it
NoReadPastNulWitness ==
    /\ res[1] # NotRun
    /\ str[1] = Replace(str[2], 5, ChNul)
    /\ \A y \in 6..(Len(str[1]) - 2) : str[1][y + 1] # ChNul
    /\ res[1].thrown
    /\ Reads(1)[Len(Reads(1))] = 5
    /\ res[2] # NotRun
    /\ ~res[2].thrown
    /\ Reads(2)[Len(Reads(2))] = Len(str[2]) - 1

\* ------------------------------------------------------------------------
\* operator< and operator== as an order (SpecTotal)
\* ------------------------------------------------------------------------

ExactlyOne(p, q, r) == (p /\ ~q /\ ~r) \/ (~p /\ q /\ ~r) \/ (~p /\ ~q /\ r)

\* C21: operator< and operator== form a strict total order: of x < y,
\* x == y and y < x exactly one holds for every two operands, x < x never
\* holds, and x < y and y < z give x < z.
StrictTotalOrder ==
    less # NotRun =>
        /\ \A i, j \in 1..3 :
             ExactlyOne(less.lt[i][j], less.eq[i][j], less.lt[j][i])
        /\ \A i \in 1..3 : ~less.lt[i][i]
        /\ \A i, j, k \in 1..3 :
             (less.lt[i][j] /\ less.lt[j][k]) => less.lt[i][k]

\* g < h by Data4 alone, h < c by Data1, on a little-endian host
StrictTotalOrderWitness ==
    /\ less # NotRun
    /\ host = "little"
    /\ g.Data1 = h.Data1 /\ g.Data2 = h.Data2 /\ g.Data3 = h.Data3
    /\ h.Data1 # less.ops[3].Data1
    /\ less.lt[1][2]
    /\ less.lt[2][3]
    /\ less.lt[1][3]
    /\ ~less.eq[1][2]

====
